---------------------------- MODULE Spec2Model ----------------------------
(***************************************************************************)
(* Version resolution and the Node index cache of notion-core's inventory  *)
(* (crates/notion-core/src/inventory/mod.rs).                              *)
(*                                                                         *)
(* Time is counted in ticks, TicksPerSec of them to the second: the        *)
(* system clock has sub-second resolution, an HTTP-date has none.          *)
(* A file is a record [present, text]; the text of the expiry file is      *)
(* either an HTTP-date (its seconds since the epoch) or malformed, the     *)
(* text of the payload file is a JSON array of entries, the JSON literal   *)
(* null, or malformed.                                                     *)
(***************************************************************************)
EXTENDS Integers, Sequences, FiniteSets, TLC

VARIABLES now, node_index_expiry_file, node_index_file, tool, last,
          inventory, installed, outcome, npm, race

vars == <<now, node_index_expiry_file, node_index_file, tool, last,
          inventory, installed, outcome, npm, race>>

\* the variables of the resolver and its cache
resolve_vars == <<now, node_index_expiry_file, node_index_file, tool, last>>

\* the variables of the inventory and of the fetches made on its collections
inventory_vars == <<inventory, installed, outcome>>

-----------------------------------------------------------------------------
(* Bounds of the model *)

\* last instant of the clock, in ticks
MaxNow == 4
\* ticks of the system clock per second
TicksPerSec == 2
\* longest registry index, release list or package entry list
MaxLen == 3
\* largest max-age a response carries, in seconds
MaxAgeSecs == 1
\* most arguments after the program name
MaxArgs == 3
\* most loads of the inventory a run is followed through
MaxLoads == 2

-----------------------------------------------------------------------------
(* Versions and semver ranges *)

Versions == {<<1, 0, 0>>, <<1, 1, 0>>, <<2, 0, 0>>}

NoVersion == <<0, 0, 0>>

\* semver precedence: major, then minor, then patch
VersionLess(a, b) ==
    \/ a[1] < b[1]
    \/ a[1] = b[1] /\ a[2] < b[2]
    \/ a[1] = b[1] /\ a[2] = b[2] /\ a[3] < b[3]

\* Version::to_string
VersionText(v) ==
    CASE v = <<1, 0, 0>> -> "1.0.0"
      [] v = <<1, 1, 0>> -> "1.1.0"
      [] v = <<2, 0, 0>> -> "2.0.0"
      [] OTHER -> "0.0.0"

\* the requirements a VersionSpec::Semver carries
Ranges ==
    { [op |-> "^", v |-> <<1, 0, 0>>],
      [op |-> ">=", v |-> <<1, 1, 0>>],
      [op |-> "^", v |-> <<2, 0, 0>>] }

NoRange == [op |-> "*", v |-> NoVersion]

\* VersionReq::matches
Matches(r, v) ==
    CASE r.op = "^" -> v[1] = r.v[1] /\ ~VersionLess(v, r.v)
      [] r.op = ">=" -> ~VersionLess(v, r.v)
      [] OTHER -> TRUE

\* VersionReq::to_string
RangeText(r) ==
    CASE r = [op |-> "^", v |-> <<1, 0, 0>>] -> "^1.0.0"
      [] r = [op |-> ">=", v |-> <<1, 1, 0>>] -> ">=1.1.0"
      [] r = [op |-> "^", v |-> <<2, 0, 0>>] -> "^2.0.0"
      [] OTHER -> "*"

-----------------------------------------------------------------------------
(* Sequences *)

SeqsUpTo(S, n) == UNION { [1..k -> S] : k \in 0..n }

\* Iterator::find over a sequence of booleans: the first index that holds, 0 if none
FirstTrue(flags) ==
    IF \E i \in 1..Len(flags) : flags[i]
    THEN CHOOSE i \in 1..Len(flags) : flags[i] /\ \A j \in 1..(i - 1) : ~flags[j]
    ELSE 0

-----------------------------------------------------------------------------
(* Registry index of Node *)

NodeEntries == [version : Versions, lts : BOOLEAN]

NodeIndexes == SeqsUpTo(NodeEntries, MaxLen)

\* the text of a response body or of the payload file
ArrayText(entries) == [kind |-> "array", entries |-> entries, latest |-> NoVersion]
NullText == [kind |-> "null", entries |-> <<>>, latest |-> NoVersion]
MalformedText == [kind |-> "malformed", entries |-> <<>>, latest |-> NoVersion]

NodeBodies == { ArrayText(e) : e \in NodeIndexes } \cup {NullText, MalformedText}

\* the text of the expiry file
DateText(secs) == [kind |-> "http_date", secs |-> secs]
MalformedDate == [kind |-> "malformed", secs |-> 0]

File(text) == [present |-> TRUE, text |-> text]
NoIndexFile == [present |-> FALSE, text |-> NullText]
NoExpiryFile == [present |-> FALSE, text |-> MalformedDate]

-----------------------------------------------------------------------------
(* Results *)

\* Ok(version); for a package the resolved version is an entry, with its tarball
Ok(v) == [tag |-> "Ok", version |-> v, tarball |-> "", subject |-> "", detail |-> ""]
OkEntry(e) ==
    [tag |-> "Ok", version |-> e.version, tarball |-> e.tarball, subject |-> "",
     detail |-> ""]

\* Err(ErrorDetails): the variant, the tool or package it names, and the
\* matching text or URL it carries
Err(tag, subject, detail) ==
    [tag |-> tag, version |-> NoVersion, tarball |-> "", subject |-> subject,
     detail |-> detail]

\* an error wrapped by ResultExt::unknown
UnknownError == Err("Unknown", "", "")


-----------------------------------------------------------------------------
(* HTTP dates *)

\* HttpDate::from(SystemTime): an instant of the system clock, in ticks
HttpDateFromSystemTime(t) == t

\* HttpDate::from_str of a well-formed text: midnight-exact second, in ticks
HttpDateFromStr(text) == text.secs * TicksPerSec

\* Display of an HttpDate: whole seconds, the sub-second part dropped
HttpDateText(t) == DateText(t \div TicksPerSec)

-----------------------------------------------------------------------------
(* Responses of a registry *)

MaxAge(n) == [name |-> "max-age", arg |-> n]
NoCache == [name |-> "no-cache", arg |-> 0]

\* a Cache-Control header: its directives in order, absent when the header is
CacheControls ==
    { [present |-> FALSE, directives |-> <<>>],
      [present |-> TRUE, directives |-> <<NoCache>>],
      [present |-> TRUE, directives |-> <<MaxAge(0)>>],
      [present |-> TRUE, directives |-> <<NoCache, MaxAge(MaxAgeSecs)>>] }

\* the seconds the clock shows during a run, and one more
DateSecs == 0..((MaxNow \div TicksPerSec) + 1)

\* an Expires header, an HTTP-date
ExpiresHeaders ==
    { [present |-> FALSE, secs |-> 0] }
    \cup { [present |-> TRUE, secs |-> s] : s \in DateSecs \ {0} }

NoHeaders ==
    [expires |-> [present |-> FALSE, secs |-> 0],
     cache_control |-> [present |-> FALSE, directives |-> <<>>]]

\* no response: the GET failed, or none was issued
NoResponse == [ok |-> FALSE, body |-> NullText, headers |-> NoHeaders]


-----------------------------------------------------------------------------
(* The Node index cache *)

\* mutation of FromStrOptNodeIndex: an array is read as no index
FromStrOptNodeIndex_none(text) ==
    CASE text.kind = "malformed" -> [tag |-> "Err", index |-> <<>>]
      [] OTHER -> [tag |-> "None", index |-> <<>>]

\* serde_json::de::from_str::<Option<serial::NodeIndex>>
FromStrOptNodeIndex(text) ==
    CASE text.kind = "array" -> [tag |-> "Some", index |-> text.entries]
      [] text.kind = "null" -> [tag |-> "None", index |-> <<>>]
      [] OTHER -> [tag |-> "Err", index |-> <<>>]

\* serde_json::de::from_str::<serial::NodeIndex>
FromStrNodeIndex(text) ==
    CASE text.kind = "array" -> [tag |-> "Ok", index |-> text.entries, detail |-> ""]
      [] OTHER -> [tag |-> "Unknown", index |-> <<>>, detail |-> ""]

\* mutation of still_valid: the tie counts as valid
still_valid_le(current_date, expiry_date) == current_date <= expiry_date

\* the validity test of a cache record: current_date < expiry_date
still_valid(current_date, expiry_date) == current_date < expiry_date

\* read_cached_opt: Some(index), None, or Err
read_cached_opt(expiry_file, index_file, t) ==
    IF ~expiry_file.present
    THEN [tag |-> "None", index |-> <<>>]
    ELSE IF expiry_file.text.kind # "http_date"
    THEN [tag |-> "Err", index |-> <<>>]
    ELSE IF still_valid(HttpDateFromSystemTime(t), HttpDateFromStr(expiry_file.text))
    THEN IF index_file.present
         THEN FromStrOptNodeIndex(index_file.text)
         ELSE [tag |-> "None", index |-> <<>>]
    ELSE [tag |-> "None", index |-> <<>>]

FourHours == 14400

\* max_age: the first max-age directive of Cache-Control, else four hours
max_age(headers) ==
    LET ds == headers.cache_control.directives
        i == FirstTrue([k \in 1..Len(ds) |-> ds[k].name = "max-age"])
    IN  IF headers.cache_control.present /\ i > 0 THEN ds[i].arg ELSE FourHours

\* mutation of new_expiry: max-age is preferred to Expires
new_expiry_max_age_first(headers, t) ==
    IF headers.expires.present /\ max_age(headers) = FourHours
    THEN DateText(headers.expires.secs)
    ELSE HttpDateText(t + max_age(headers) * TicksPerSec)

\* the expiry written after a fetch
new_expiry(headers, t) ==
    IF headers.expires.present
    THEN DateText(headers.expires.secs)
    ELSE HttpDateText(t + max_age(headers) * TicksPerSec)

\* mutation of persist: the file shows an array short of its last entry
persist_partial(text) ==
    IF text.kind = "array" /\ Len(text.entries) > 0
    THEN File(ArrayText(SubSeq(text.entries, 1, Len(text.entries) - 1)))
    ELSE File(text)

\* NamedTempFile::persist: the file at the final path is, from one instant
\* to the next, the whole text written to the temporary file
persist(text) == File(text)

\* mutation of resolve_node_versions: a GET that fails is issued once more,
\* and the cache record is dropped when that fails too
resolve_node_versions_retries(url, expiry_file, index_file, t, response) ==
    LET cached == read_cached_opt(expiry_file, index_file, t)
        kept == [expiry_file |-> expiry_file, index_file |-> index_file]
    IN  CASE cached.tag = "Some" ->
               kept @@ [ret |-> [tag |-> "Ok", index |-> cached.index, detail |-> ""],
                        gets |-> 0]
          [] cached.tag = "Err" ->
               kept @@ [ret |-> [tag |-> "Unknown", index |-> <<>>, detail |-> ""],
                        gets |-> 0]
          [] OTHER ->
               IF ~response.ok
               THEN [index_file |-> NoIndexFile, expiry_file |-> NoExpiryFile,
                     ret |-> [tag |-> "RegistryFetchError", index |-> <<>>, detail |-> url],
                     gets |-> 2]
               ELSE [index_file |-> File(response.body),
                     expiry_file |-> File(new_expiry(response.headers, t)),
                     ret |-> FromStrNodeIndex(response.body),
                     gets |-> 1]

\* mutation of resolve_node_versions: the cache record answers for the public
\* URL only, any other URL is fetched
resolve_node_versions_keyed(url, expiry_file, index_file, t, response) ==
    LET cached == IF url = "https://nodejs.org/dist/index.json"
                  THEN read_cached_opt(expiry_file, index_file, t)
                  ELSE [tag |-> "None", index |-> <<>>]
        kept == [expiry_file |-> expiry_file, index_file |-> index_file]
    IN  CASE cached.tag = "Some" ->
               kept @@ [ret |-> [tag |-> "Ok", index |-> cached.index, detail |-> ""],
                        gets |-> 0]
          [] cached.tag = "Err" ->
               kept @@ [ret |-> [tag |-> "Unknown", index |-> <<>>, detail |-> ""],
                        gets |-> 0]
          [] OTHER ->
               IF ~response.ok
               THEN kept @@ [ret |-> [tag |-> "RegistryFetchError", index |-> <<>>,
                                      detail |-> url],
                             gets |-> 1]
               ELSE [index_file |-> File(response.body),
                     expiry_file |-> File(new_expiry(response.headers, t)),
                     ret |-> FromStrNodeIndex(response.body),
                     gets |-> 1]

\* mutation of resolve_node_versions: the body is parsed before anything is
\* persisted, and a body that is no index leaves the files as they were
resolve_node_versions_parse_first(url, expiry_file, index_file, t, response) ==
    LET cached == read_cached_opt(expiry_file, index_file, t)
        kept == [expiry_file |-> expiry_file, index_file |-> index_file]
    IN  CASE cached.tag = "Some" ->
               kept @@ [ret |-> [tag |-> "Ok", index |-> cached.index, detail |-> ""],
                        gets |-> 0]
          [] cached.tag = "Err" ->
               kept @@ [ret |-> [tag |-> "Unknown", index |-> <<>>, detail |-> ""],
                        gets |-> 0]
          [] OTHER ->
               IF ~response.ok
               THEN kept @@ [ret |-> [tag |-> "RegistryFetchError", index |-> <<>>,
                                      detail |-> url],
                             gets |-> 1]
               ELSE IF FromStrNodeIndex(response.body).tag # "Ok"
               THEN kept @@ [ret |-> FromStrNodeIndex(response.body), gets |-> 1]
               ELSE [index_file |-> File(response.body),
                     expiry_file |-> File(new_expiry(response.headers, t)),
                     ret |-> FromStrNodeIndex(response.body),
                     gets |-> 1]

\* resolve_node_versions: what is returned, the two files afterwards, and the
\* number of GETs issued; response is what the registry answers to a GET of url
resolve_node_versions(url, expiry_file, index_file, t, response) ==
    LET cached == read_cached_opt(expiry_file, index_file, t)
        kept == [expiry_file |-> expiry_file, index_file |-> index_file]
    IN  CASE cached.tag = "Some" ->
               kept @@ [ret |-> [tag |-> "Ok", index |-> cached.index, detail |-> ""],
                        gets |-> 0]
          [] cached.tag = "Err" ->
               kept @@ [ret |-> [tag |-> "Unknown", index |-> <<>>, detail |-> ""],
                        gets |-> 0]
          [] OTHER ->
               IF ~response.ok
               THEN kept @@ [ret |-> [tag |-> "RegistryFetchError", index |-> <<>>,
                                      detail |-> url],
                             gets |-> 1]
               ELSE [index_file |-> File(response.body),
                     expiry_file |-> File(new_expiry(response.headers, t)),
                     ret |-> FromStrNodeIndex(response.body),
                     gets |-> 1]


-----------------------------------------------------------------------------
(* Requests *)

\* VersionSpec
Latest == [variant |-> "Latest", range |-> NoRange, version |-> NoVersion]
Lts == [variant |-> "Lts", range |-> NoRange, version |-> NoVersion]
Semver(r) == [variant |-> "Semver", range |-> r, version |-> NoVersion]
Exact(v) == [variant |-> "Exact", range |-> NoRange, version |-> v]

VersionSpecs ==
    {Latest, Lts} \cup { Semver(r) : r \in Ranges } \cup { Exact(v) : v \in Versions }

\* Option<&ToolHooks<D>>: whether hooks are given, and which of the two are set
Hooks ==
    { [given |-> FALSE, latest |-> FALSE, index |-> FALSE] }
    \cup [given : {TRUE}, latest : BOOLEAN, index : BOOLEAN]

\* Hook::resolve: the URL a hook makes of a path
HookResolve(hook, path) == "hook://" \o hook \o "/" \o path

public_node_version_index == "https://nodejs.org/dist/index.json"

-----------------------------------------------------------------------------
(* Resolution of Node versions *)

\* the predicates match_node_version is called with
AnyEntry == [kind |-> "any", range |-> NoRange]
LtsEntry == [kind |-> "lts", range |-> NoRange]
RangeEntry(r) == [kind |-> "semver", range |-> r]

Holds(predicate, entry) ==
    CASE predicate.kind = "any" -> TRUE
      [] predicate.kind = "lts" -> entry.lts
      [] OTHER -> Matches(predicate.range, entry.version)

\* mutation of find_version: the last entry that satisfies the predicate
find_version_last(entries, predicate) ==
    LET n == Len(entries)
        i == FirstTrue([k \in 1..n |-> Holds(predicate, entries[n + 1 - k])])
    IN  IF i = 0
        THEN [tag |-> "None", version |-> NoVersion]
        ELSE [tag |-> "Some", version |-> entries[n + 1 - i].version]

\* Iterator::find on the entries of an index, mapped to the version
find_version(entries, predicate) ==
    LET i == FirstTrue([k \in 1..Len(entries) |-> Holds(predicate, entries[k])])
    IN  IF i = 0
        THEN [tag |-> "None", version |-> NoVersion]
        ELSE [tag |-> "Some", version |-> entries[i].version]

\* match_node_version
match_node_version(url, predicate, expiry_file, index_file, t, response) ==
    LET r == resolve_node_versions(url, expiry_file, index_file, t, response)
    IN  [r EXCEPT !.ret =
            IF r.ret.tag = "Ok"
            THEN [tag |-> "Ok", found |-> find_version(r.ret.index, predicate), detail |-> ""]
            ELSE [tag |-> r.ret.tag, found |-> [tag |-> "None", version |-> NoVersion],
                  detail |-> r.ret.detail]] @@ [url |-> url]

\* the tail of the three resolve methods: the version, or NodeVersionNotFound
node_version_or_not_found(m, matching) ==
    [expiry_file |-> m.expiry_file, index_file |-> m.index_file,
     gets |-> m.gets, url |-> m.url, hooked |-> TRUE,
     result |->
        IF m.ret.tag = "RegistryFetchError" THEN Err(m.ret.tag, "Node", m.ret.detail)
        ELSE IF m.ret.tag # "Ok" THEN UnknownError
        ELSE IF m.ret.found.tag = "Some" THEN Ok(m.ret.found.version)
        ELSE Err("NodeVersionNotFound", "", matching)]

\* mutation of node_latest_url: the index hook is the one looked at
node_latest_url_of_index(hooks) ==
    IF hooks.given /\ hooks.index
    THEN HookResolve("index", "index.json")
    ELSE public_node_version_index

node_latest_url(hooks) ==
    IF hooks.given /\ hooks.latest
    THEN HookResolve("latest", "index.json")
    ELSE public_node_version_index

node_index_url(hooks) ==
    IF hooks.given /\ hooks.index
    THEN HookResolve("index", "index.json")
    ELSE public_node_version_index

\* mutation of resolve_latest: only LTS entries are considered
NodeCollection_resolve_latest_lts(hooks, expiry_file, index_file, t, response) ==
    node_version_or_not_found(
        match_node_version(node_latest_url(hooks), LtsEntry,
                           expiry_file, index_file, t, response),
        "latest")

NodeCollection_resolve_latest(hooks, expiry_file, index_file, t, response) ==
    node_version_or_not_found(
        match_node_version(node_latest_url(hooks), AnyEntry,
                           expiry_file, index_file, t, response),
        "latest")

NodeCollection_resolve_semver(matching, hooks, expiry_file, index_file, t, response) ==
    node_version_or_not_found(
        match_node_version(node_index_url(hooks), RangeEntry(matching),
                           expiry_file, index_file, t, response),
        RangeText(matching))

\* mutation of resolve_lts: every entry is taken for an LTS entry
NodeCollection_resolve_lts_any(hooks, expiry_file, index_file, t, response) ==
    node_version_or_not_found(
        match_node_version(node_index_url(hooks), AnyEntry,
                           expiry_file, index_file, t, response),
        "lts")

\* mutation of resolve_lts: the error names the request of resolve_latest
NodeCollection_resolve_lts_as_latest(hooks, expiry_file, index_file, t, response) ==
    node_version_or_not_found(
        match_node_version(node_index_url(hooks), LtsEntry,
                           expiry_file, index_file, t, response),
        "latest")

NodeCollection_resolve_lts(hooks, expiry_file, index_file, t, response) ==
    node_version_or_not_found(
        match_node_version(node_index_url(hooks), LtsEntry,
                           expiry_file, index_file, t, response),
        "lts")

\* mutation of resolve_exact: the hooks are looked at
NodeCollection_resolve_exact_hooked(version, hooks, expiry_file, index_file) ==
    [expiry_file |-> expiry_file, index_file |-> index_file,
     gets |-> 0, url |-> node_index_url(hooks), hooked |-> TRUE, result |-> Ok(version)]

NodeCollection_resolve_exact(version, hooks, expiry_file, index_file) ==
    [expiry_file |-> expiry_file, index_file |-> index_file,
     gets |-> 0, url |-> "", hooked |-> FALSE, result |-> Ok(version)]

\* FetchResolve::resolve on a NodeCollection, up to the resolved version
NodeCollection_resolve(matching, hooks, expiry_file, index_file, t, response) ==
    CASE matching.variant = "Latest" ->
           NodeCollection_resolve_latest(hooks, expiry_file, index_file, t, response)
      [] matching.variant = "Lts" ->
           NodeCollection_resolve_lts(hooks, expiry_file, index_file, t, response)
      [] matching.variant = "Semver" ->
           NodeCollection_resolve_semver(matching.range, hooks,
                                         expiry_file, index_file, t, response)
      [] OTHER ->
           NodeCollection_resolve_exact(matching.version, hooks, expiry_file, index_file)

-----------------------------------------------------------------------------
(* Resolution of Yarn versions *)

public_yarn_version_index == "https://api.github.com/repos/yarnpkg/yarn/releases"
public_yarn_latest_version == "https://yarnpkg.com/latest-version"

\* the body of the latest-version endpoint: the text of one version
VersionBody(v) == [kind |-> "version", entries |-> <<v>>, latest |-> NoVersion]

\* the body of the releases endpoint: the releases as the registry lists them
ReleasesBody(releases) == [kind |-> "releases", entries |-> releases, latest |-> NoVersion]

YarnLatestResponses ==
    {NoResponse}
    \cup [ok : {TRUE}, body : { VersionBody(v) : v \in Versions } \cup {MalformedText},
          headers : {NoHeaders}]

YarnIndexResponses ==
    {NoResponse}
    \cup [ok : {TRUE},
          body : { ReleasesBody(l) : l \in SeqsUpTo(Versions, MaxLen) } \cup {MalformedText},
          headers : {NoHeaders}]

\* a BTreeSet<Version> iterated in reverse: its members in descending precedence
BTreeSetRev(set) ==
    CHOOSE seq \in [1..Cardinality(set) -> set] :
        \A i, j \in 1..Cardinality(set) : i < j => VersionLess(seq[j], seq[i])

\* serial::YarnIndex::into_index: the releases as the entries of a YarnIndex
YarnIndexEntries(releases) == { releases[i] : i \in 1..Len(releases) }

yarn_latest_url(hooks) ==
    IF hooks.given /\ hooks.latest
    THEN HookResolve("latest", "latest-version")
    ELSE public_yarn_latest_version

yarn_index_url(hooks) ==
    IF hooks.given /\ hooks.index
    THEN HookResolve("index", "releases")
    ELSE public_yarn_version_index

\* what a resolve method of Yarn or of a package did: no cache, one GET
Requested(url, result) == [gets |-> 1, url |-> url, hooked |-> TRUE, result |-> result]

YarnCollection_resolve_latest(hooks, response) ==
    LET url == yarn_latest_url(hooks)
    IN  Requested(url,
            IF ~response.ok THEN Err("YarnLatestFetchError", "", url)
            ELSE IF response.body.kind # "version" THEN UnknownError
            ELSE Ok(response.body.entries[1]))

\* mutation of resolve_semver: the releases are scanned as the registry lists
\* them, the first match taken
YarnCollection_resolve_semver_listed(matching, hooks, response) ==
    LET url == yarn_index_url(hooks)
        releases == response.body.entries
        i == FirstTrue([k \in 1..Len(releases) |-> Matches(matching, releases[k])])
    IN  Requested(url,
            IF ~response.ok THEN Err("RegistryFetchError", "Yarn", url)
            ELSE IF response.body.kind # "releases" THEN UnknownError
            ELSE IF i > 0 THEN Ok(releases[i])
            ELSE Err("YarnVersionNotFound", "", RangeText(matching)))

YarnCollection_resolve_semver(matching, hooks, response) ==
    LET url == yarn_index_url(hooks)
        releases == BTreeSetRev(YarnIndexEntries(response.body.entries))
        i == FirstTrue([k \in 1..Len(releases) |-> Matches(matching, releases[k])])
    IN  Requested(url,
            IF ~response.ok THEN Err("RegistryFetchError", "Yarn", url)
            ELSE IF response.body.kind # "releases" THEN UnknownError
            ELSE IF i > 0 THEN Ok(releases[i])
            ELSE Err("YarnVersionNotFound", "", RangeText(matching)))

\* mutation of resolve_lts: Yarn resolves LTS from the releases index
YarnCollection_resolve_lts_index(hooks, response) ==
    YarnCollection_resolve_semver(NoRange, hooks, response)

\* FetchResolve::resolve_lts, the default method, on a YarnCollection
YarnCollection_resolve_lts(hooks, response) ==
    YarnCollection_resolve_latest(hooks, response)

YarnCollection_resolve_exact(version, hooks) ==
    [gets |-> 0, url |-> "", hooked |-> FALSE, result |-> Ok(version)]

\* FetchResolve::resolve on a YarnCollection, up to the resolved version
YarnCollection_resolve(matching, hooks, response) ==
    CASE matching.variant = "Latest" -> YarnCollection_resolve_latest(hooks, response)
      [] matching.variant = "Lts" -> YarnCollection_resolve_lts(hooks, response)
      [] matching.variant = "Semver" ->
           YarnCollection_resolve_semver(matching.range, hooks, response)
      [] OTHER -> YarnCollection_resolve_exact(matching.version, hooks)

\* the endpoint a resolve of Yarn asks
YarnResponses(matching) ==
    CASE matching.variant = "Semver" -> YarnIndexResponses
      [] matching.variant = "Exact" -> {NoResponse}
      [] OTHER -> YarnLatestResponses

-----------------------------------------------------------------------------
(* Resolution of package versions *)

public_package_registry_root == "https://registry.npmjs.org"

PackageNames == {"left-pad"}

PackageEntries == [version : Versions, tarball : {"a.tgz", "b.tgz"}]

\* the body of the metadata endpoint: the latest marker and the entries
MetadataBody(latest, entries) == [kind |-> "metadata", entries |-> entries, latest |-> latest]

PackageResponses ==
    {NoResponse}
    \cup [ok : {TRUE},
          body : { MetadataBody(v, l) : v \in Versions, l \in SeqsUpTo(PackageEntries, MaxLen) }
                 \cup {MalformedText},
          headers : {NoHeaders}]

\* the predicates match_package_entry is called with
VersionIs(v) == [kind |-> "version", range |-> NoRange, version |-> v]
VersionIn(r) == [kind |-> "semver", range |-> r, version |-> NoVersion]

HoldsOfPackage(predicate, entry) ==
    CASE predicate.kind = "version" -> predicate.version = entry.version
      [] OTHER -> Matches(predicate.range, entry.version)

\* match_package_entry: the index in the list of the entry found, 0 if none
match_package_entry(entries, predicate) ==
    FirstTrue([k \in 1..Len(entries) |-> HoldsOfPackage(predicate, entries[k])])

package_latest_url(name, hooks) ==
    IF hooks.given /\ hooks.latest
    THEN HookResolve("latest", name)
    ELSE public_package_registry_root \o "/" \o name

package_index_url(name, hooks) ==
    IF hooks.given /\ hooks.index
    THEN HookResolve("index", name)
    ELSE public_package_registry_root \o "/" \o name

\* resolve_package_metadata, then match_package_entry, then the entry or
\* PackageVersionNotFound
package_entry_or_not_found(name, url, predicate, matching, response) ==
    LET i == match_package_entry(response.body.entries, predicate)
    IN  Requested(url,
            IF ~response.ok THEN Err("PackageMetadataFetchError", "", url)
            ELSE IF response.body.kind # "metadata" THEN UnknownError
            ELSE IF i > 0 THEN OkEntry(response.body.entries[i])
            ELSE Err("PackageVersionNotFound", name, matching))

PackageCollection_resolve_latest(name, hooks, response) ==
    package_entry_or_not_found(name, package_latest_url(name, hooks),
                               VersionIs(response.body.latest), "latest", response)

PackageCollection_resolve_semver(name, matching, hooks, response) ==
    package_entry_or_not_found(name, package_index_url(name, hooks),
                               VersionIn(matching), RangeText(matching), response)

PackageCollection_resolve_exact(name, exact_version, hooks, response) ==
    package_entry_or_not_found(name, package_index_url(name, hooks),
                               VersionIs(exact_version), VersionText(exact_version),
                               response)

\* FetchResolve::resolve_lts, the default method, on a PackageCollection
PackageCollection_resolve_lts(name, hooks, response) ==
    PackageCollection_resolve_latest(name, hooks, response)

\* FetchResolve::resolve on a PackageCollection, up to the resolved version
PackageCollection_resolve(name, matching, hooks, response) ==
    CASE matching.variant = "Latest" -> PackageCollection_resolve_latest(name, hooks, response)
      [] matching.variant = "Lts" -> PackageCollection_resolve_lts(name, hooks, response)
      [] matching.variant = "Semver" ->
           PackageCollection_resolve_semver(name, matching.range, hooks, response)
      [] OTHER ->
           PackageCollection_resolve_exact(name, matching.version, hooks, response)

-----------------------------------------------------------------------------
(* Collections, the inventory and fetch *)

\* Collection::versions, a BTreeSet<Version>: the sequence of its members
\* in ascending precedence, each of them once
IsBTreeSet(seq) == \A i, j \in 1..Len(seq) : i < j => VersionLess(seq[i], seq[j])

BTreeSets == { s \in SeqsUpTo(Versions, Cardinality(Versions)) : IsBTreeSet(s) }

\* Collection::contains
contains(versions, version) == \E i \in 1..Len(versions) : versions[i] = version

\* BTreeSet::insert: a member stays where it is, a new one goes to its place
BTreeSetInsert(versions, version) ==
    IF contains(versions, version) THEN versions
    ELSE LET k == Cardinality({ i \in 1..Len(versions) : VersionLess(versions[i], version) })
         IN  SubSeq(versions, 1, k) \o <<version>> \o SubSeq(versions, k + 1, Len(versions))

\* Fetched<T>: Now(T) or Already(T), T carrying the version
FetchedNow(version) == [kind |-> "Now", version |-> version]
FetchedAlready(version) == [kind |-> "Already", version |-> version]
NoFetched == [kind |-> "None", version |-> NoVersion]

\* Fallible<Fetched<T>>
FetchOk(f) == [tag |-> "Ok", fetched |-> f, error |-> Ok(NoVersion)]
FetchErr(e) == [tag |-> "Err", fetched |-> NoFetched, error |-> e]

\* D::new(name, version, hooks): the distro of the version resolved
Distro(t, name, resolved) == [tool |-> t, name |-> name, version |-> resolved.version]

\* Distro::fetch: a version the collection has is not downloaded again;
\* another one is downloaded and unpacked, which may fail
DistroFetch(distro, versions, download) ==
    IF contains(versions, distro.version) THEN FetchOk(FetchedAlready(distro.version))
    ELSE IF download THEN FetchOk(FetchedNow(distro.version))
    ELSE FetchErr(Err("DownloadError", distro.tool, VersionText(distro.version)))

\* mutation of insert_if_now: the version fetched is never recorded
insert_if_now_never(fetched, versions) == versions

\* if let &Fetched::Now(version) = &fetched { self.versions.insert(version) }
insert_if_now(fetched, versions) ==
    IF fetched.kind = "Now" THEN BTreeSetInsert(versions, fetched.version) ELSE versions

\* mutation of fetch_distro: what was fetched is returned as Now
fetch_distro_as_now(distro, versions, download) ==
    LET ret == DistroFetch(distro, versions, download)
    IN  IF ret.tag = "Err" THEN [ret |-> ret, versions |-> versions]
        ELSE [ret |-> FetchOk(FetchedNow(ret.fetched.version)),
              versions |-> insert_if_now(ret.fetched, versions)]

\* mutation of fetch_distro: the version is recorded before the distro is fetched
fetch_distro_insert_first(distro, versions, download) ==
    [ret |-> DistroFetch(distro, versions, download),
     versions |-> BTreeSetInsert(versions, distro.version)]

\* the body of fetch after resolve: distro.fetch(&self)?, the insertion on
\* Now, and Ok(fetched)
fetch_distro(distro, versions, download) ==
    LET ret == DistroFetch(distro, versions, download)
    IN  IF ret.tag = "Err" THEN [ret |-> ret, versions |-> versions]
        ELSE [ret |-> FetchOk(ret.fetched),
              versions |-> insert_if_now(ret.fetched, versions)]

\* self.resolve(name, matching, hooks)? and then the rest of fetch
fetch_resolved(t, name, out, versions, download) ==
    IF out.result.tag # "Ok"
    THEN [out |-> out, ret |-> FetchErr(out.result), versions |-> versions]
    ELSE LET done == fetch_distro(Distro(t, name, out.result), versions, download)
         IN  [out |-> out, ret |-> done.ret, versions |-> done.versions]

NodeCollection_fetch(matching, hooks, versions, expiry_file, index_file, t, response, download) ==
    fetch_resolved("node", "node",
                   NodeCollection_resolve(matching, hooks, expiry_file, index_file, t, response),
                   versions, download)

YarnCollection_fetch(matching, hooks, versions, response, download) ==
    fetch_resolved("yarn", "yarn", YarnCollection_resolve(matching, hooks, response),
                   versions, download)

PackageCollection_fetch(name, matching, hooks, versions, response, download) ==
    fetch_resolved("package", name, PackageCollection_resolve(name, matching, hooks, response),
                   versions, download)

\* Inventory: one collection for each kind of tool
Inventory(node, yarn, packages) == [node |-> node, yarn |-> yarn, packages |-> packages]

NoInventory == Inventory(<<>>, <<>>, <<>>)

\* Collection::load, three times: the versions found in the local state;
\* any of the three may fail
Inventory_current(disk, loaded) ==
    IF loaded THEN [tag |-> "Ok", inventory |-> Inventory(disk.node, disk.yarn, disk.packages)]
    ELSE [tag |-> "Err", inventory |-> NoInventory]

\* LazyCell<Inventory>: empty, or filled with the inventory; loads counts the
\* calls of Inventory::current that returned an inventory
LazyCell_new == [filled |-> FALSE, inner |-> NoInventory, loads |-> 0]

\* mutation of try_borrow_with: the closure runs on every access
try_borrow_with_reloads(cell, disk, loaded) ==
    LET current == Inventory_current(disk, loaded)
    IN  IF current.tag = "Ok"
        THEN [tag |-> "Ok",
              cell |-> [filled |-> TRUE, inner |-> current.inventory, loads |-> cell.loads + 1]]
        ELSE [tag |-> "Err", cell |-> cell]

\* LazyCell::try_borrow_with and try_borrow_mut_with, given
\* || Inventory::current(): a filled cell is borrowed as it is; an empty one
\* is filled when the closure returns Ok, and stays empty when it fails
try_borrow_with(cell, disk, loaded) ==
    IF cell.filled THEN [tag |-> "Ok", cell |-> cell]
    ELSE LET current == Inventory_current(disk, loaded)
         IN  IF current.tag = "Ok"
             THEN [tag |-> "Ok",
                   cell |-> [filled |-> TRUE, inner |-> current.inventory,
                             loads |-> cell.loads + 1]]
             ELSE [tag |-> "Err", cell |-> cell]

-----------------------------------------------------------------------------
(* The npm dispatcher (crates/volta-core/src/run/npm.rs) *)

\* an OsString of the argument vector: its text, whether the text begins
\* with '-', and whether it is valid Unicode (to_str gives Some)
Arg(text) == [text |-> text, dash |-> FALSE, unicode |-> TRUE]
Flag(text) == [text |-> text, dash |-> TRUE, unicode |-> TRUE]
RawFlag(text) == [text |-> text, dash |-> TRUE, unicode |-> FALSE]

\* the arguments that follow the program name
ArgTokens ==
    { Flag("-g"), Flag("--global"), Flag("--save"), RawFlag("-<FF>"),
      Arg("install"), Arg("i"), Arg("isntall"), Arg("add"), Arg("run"), Arg("left-pad") }

\* args_os(): the program name, then the arguments
ArgVectors == { <<Arg("npm")>> \o rest : rest \in SeqsUpTo(ArgTokens, MaxArgs) }

\* arg == "-g" || arg == "--global"
is_global_flag(arg) == arg.unicode /\ arg.text \in {"-g", "--global"}

\* the filter of check_npm_install: an argument that is not Unicode stays,
\* a Unicode one stays when it does not start with '-'
not_a_flag(arg) == IF arg.unicode THEN ~arg.dash ELSE TRUE

\* Iterator::filter over a sequence
RECURSIVE Filter(_)
Filter(args) ==
    IF args = <<>> THEN <<>>
    ELSE IF not_a_flag(Head(args)) THEN <<Head(args)>> \o Filter(Tail(args))
    ELSE Filter(Tail(args))

\* Option<OsString>
SomeArg(arg) == [present |-> TRUE, arg |-> arg]
NoArg == [present |-> FALSE, arg |-> Arg("")]

\* Iterator::next at position k of a sequence
NextArg(args, k) == IF k <= Len(args) THEN SomeArg(args[k]) ELSE NoArg

\* CommandArg
GlobalAdd(package) == [kind |-> "GlobalAdd", package |-> package]
NotGlobalAdd == [kind |-> "NotGlobalAdd", package |-> NoArg]

\* cmd == "install" || cmd == "i" || cmd == "isntall" || cmd == "add"
is_install_command(cmd) ==
    cmd.present /\ cmd.arg.unicode /\ cmd.arg.text \in {"install", "i", "isntall", "add"}

\* mutation of check_npm_install: the program name is not skipped
check_npm_install_no_skip(argv) ==
    IF ~\E i \in 1..Len(argv) : is_global_flag(argv[i]) THEN NotGlobalAdd
    ELSE LET args == Filter(argv)
             cmd == NextArg(args, 1)
         IN  IF is_install_command(cmd) THEN GlobalAdd(NextArg(args, 2)) ELSE NotGlobalAdd

check_npm_install(argv) ==
    IF ~\E i \in 1..Len(argv) : is_global_flag(argv[i]) THEN NotGlobalAdd
    ELSE LET args == Filter(Tail(argv))
             cmd == NextArg(args, 1)
         IN  IF is_install_command(cmd) THEN GlobalAdd(NextArg(args, 2)) ELSE NotGlobalAdd

\* Option<Platform> as Platform::with_cli returns it, or its failure
PlatformResults == {"Some", "None", "Err"}

\* Fallible<ToolCommand>
NpmErr(kind, package) ==
    [tag |-> "Err", error |-> kind, package |-> package, exe |-> "", path |-> ""]
ToolCommand_direct(exe, path) ==
    [tag |-> "direct", error |-> "", package |-> NoArg, exe |-> exe, path |-> path]
ToolCommand_passthrough(exe, default_error) ==
    [tag |-> "passthrough", error |-> default_error, package |-> NoArg, exe |-> exe,
     path |-> ""]

\* check_npm_install was not called
NotChecked == [kind |-> "NotChecked", package |-> NoArg]

\* what a call of command did: the calls it made, in order, what
\* check_npm_install returned to it, and its result
Ran(steps, found, ret) == [steps |-> steps, found |-> found, ret |-> ret]

\* the part of command on a platform, from the checkout on
checkout_and_run(steps, found, checkout, path, resolve_npm) ==
    IF ~checkout THEN Ran(steps \o <<"checkout">>, found, NpmErr("CheckoutError", NoArg))
    ELSE IF ~path
    THEN Ran(steps \o <<"checkout", "path">>, found, NpmErr("PathError", NoArg))
    ELSE IF ~resolve_npm
    THEN Ran(steps \o <<"checkout", "path", "resolve_npm">>, found,
             NpmErr("ResolveNpmError", NoArg))
    ELSE Ran(steps \o <<"checkout", "path", "resolve_npm">>, found,
             ToolCommand_direct("npm", "image.path"))

\* mutation of command: global installs are looked for before the platform
command_intercept_first(argv, platform, intercept, checkout, path, resolve_npm) ==
    LET start == <<"add_event_start", "intercept_global_installs", "check_npm_install">>
        found == check_npm_install(argv)
    IN  IF intercept /\ found.kind = "GlobalAdd"
        THEN Ran(start, found, NpmErr("NoGlobalInstalls", found.package))
        ELSE IF platform = "Err"
        THEN Ran(start \o <<"with_cli">>, found, NpmErr("PlatformError", NoArg))
        ELSE IF platform = "None"
        THEN Ran(start \o <<"with_cli">>, found, ToolCommand_passthrough("npm", "NoPlatform"))
        ELSE checkout_and_run(start \o <<"with_cli">>, found, checkout, path, resolve_npm)

\* mutation of command: global installs are refused whatever the policy
command_ignores_policy(argv, platform, intercept, checkout, path, resolve_npm) ==
    LET start == <<"add_event_start", "with_cli">>
        found == check_npm_install(argv)
    IN  IF platform = "Err" THEN Ran(start, NotChecked, NpmErr("PlatformError", NoArg))
        ELSE IF platform = "None"
        THEN Ran(start, NotChecked, ToolCommand_passthrough("npm", "NoPlatform"))
        ELSE IF found.kind = "GlobalAdd"
        THEN Ran(start \o <<"check_npm_install">>, found,
                 NpmErr("NoGlobalInstalls", found.package))
        ELSE checkout_and_run(start \o <<"check_npm_install">>, found,
                              checkout, path, resolve_npm)

command(argv, platform, intercept, checkout, path, resolve_npm) ==
    LET start == <<"add_event_start", "with_cli">>
        found == check_npm_install(argv)
    IN  IF platform = "Err" THEN Ran(start, NotChecked, NpmErr("PlatformError", NoArg))
        ELSE IF platform = "None"
        THEN Ran(start, NotChecked, ToolCommand_passthrough("npm", "NoPlatform"))
        ELSE IF ~intercept
        THEN checkout_and_run(start \o <<"intercept_global_installs">>, NotChecked,
                              checkout, path, resolve_npm)
        ELSE IF found.kind = "GlobalAdd"
        THEN Ran(start \o <<"intercept_global_installs", "check_npm_install">>, found,
                 NpmErr("NoGlobalInstalls", found.package))
        ELSE checkout_and_run(start \o <<"intercept_global_installs", "check_npm_install">>,
                              found, checkout, path, resolve_npm)

-----------------------------------------------------------------------------
(* State *)

Tools == {"node", "yarn", "package"}

\* no call is on record: none was made yet, or its caller has moved on
NoCall ==
    [tool |-> "none", name |-> "", matching |-> Latest,
     hooks |-> [given |-> FALSE, latest |-> FALSE, index |-> FALSE],
     url |-> "", gets |-> 0, hooked |-> FALSE,
     response |-> NoResponse, result |-> Ok(NoVersion)]

\* the record of a call: its arguments, the GETs it issued and of which URL,
\* whether it looked at the hooks, the response it got, and what it returned
Call(t, name, matching, hooks, out, response) ==
    [tool |-> t, name |-> name, matching |-> matching, hooks |-> hooks,
     url |-> out.url, gets |-> out.gets, hooked |-> out.hooked,
     response |-> IF out.gets = 0 THEN NoResponse ELSE response,
     result |-> out.result]

\* no operation on the inventory is on record
NoOutcome == [op |-> "none", tool |-> "none", ret |-> FetchOk(NoFetched), seen |-> NoInventory]

\* the npm dispatcher has not been entered
NoNpm == [argv |-> <<>>, called |-> FALSE, platform |-> "None", intercept |-> FALSE,
          image |-> [checkout |-> FALSE, path |-> FALSE, resolve_npm |-> FALSE],
          ran |-> Ran(<<>>, NotChecked, NpmErr("", NoArg))]

\* the processes that run resolve_node_versions side by side
Procs == {1, 2}

\* a process before its first step; pc names the step it is to take next,
\* after tells whether the other process had returned when this one began
NoProc ==
    [pc |-> "read_expiry", after |-> FALSE, expiry |-> NoExpiryFile, at |-> 0,
     payload |-> NoIndexFile,
     response |-> NoResponse, expiry_text |-> MalformedDate,
     ret |-> [tag |-> "None", index |-> <<>>, detail |-> ""], gets |-> 0]

\* no file was persisted
NoWrite == [by |-> 0, text |-> NullText]

\* no process has taken a step: proc holds the locals of each process,
\* fetched the bodies the registry has answered, index_writer and
\* expiry_writer the last persist to each file and the text its writer held
NoRace ==
    [proc |-> [p \in Procs |-> NoProc], fetched |-> {},
     index_writer |-> NoWrite, expiry_writer |-> NoWrite]

\* the inventory and the dispatcher stay as a process that uses neither has them
Idle ==
    /\ inventory = LazyCell_new
    /\ installed = NoInventory
    /\ outcome = NoOutcome
    /\ npm = NoNpm
    /\ race = NoRace

\* the indexes the registry serves while the cache is exercised
SampleIndexes ==
    { <<>>,
      <<[version |-> <<1, 0, 0>>, lts |-> TRUE]>>,
      <<[version |-> <<2, 0, 0>>, lts |-> FALSE], [version |-> <<1, 1, 0>>, lts |-> TRUE]>> }

SampleBodies == { ArrayText(e) : e \in SampleIndexes } \cup {NullText, MalformedText}

ExpiryFiles ==
    {NoExpiryFile, File(MalformedDate)} \cup { File(DateText(s)) : s \in DateSecs }

IndexFiles == {NoIndexFile} \cup { File(b) : b \in SampleBodies }

\* the cache directory as earlier runs and other programs left it
Init ==
    /\ now = 0
    /\ node_index_expiry_file \in ExpiryFiles
    /\ node_index_file \in IndexFiles
    /\ tool = "node"
    /\ last = NoCall
    /\ Idle

\* the system clock advances
Tick ==
    /\ now < MaxNow
    /\ now' = now + 1
    /\ last' = NoCall
    /\ UNCHANGED <<node_index_expiry_file, node_index_file, tool, inventory_vars, npm, race>>

\* the caller takes the result of the call
Return ==
    /\ last # NoCall
    /\ last' = NoCall
    /\ UNCHANGED <<now, node_index_expiry_file, node_index_file, tool, inventory_vars, npm, race>>

\* the response to a GET: drawn from responses when the call issues one
Answer(miss, responses) == IF miss THEN responses ELSE {NoResponse}

\* a call of resolve on the NodeCollection
NodeResolveOf(specs, responses) ==
    /\ tool = "node"
    /\ last = NoCall
    /\ \E matching \in specs, hooks \in Hooks :
       \E response \in Answer(matching.variant # "Exact" /\
                              read_cached_opt(node_index_expiry_file, node_index_file,
                                              now).tag = "None", responses) :
          LET out == NodeCollection_resolve(matching, hooks, node_index_expiry_file,
                                            node_index_file, now, response)
          IN  /\ node_index_expiry_file' = out.expiry_file
              /\ node_index_file' = out.index_file
              /\ last' = Call("node", "node", matching, hooks, out, response)
    /\ UNCHANGED <<now, tool, inventory_vars, npm, race>>

CacheResponses ==
    {NoResponse}
    \cup [ok : {TRUE}, body : SampleBodies,
          headers : [expires : ExpiresHeaders, cache_control : CacheControls]]

\* resolve on the NodeCollection through the cache
NodeResolveCached ==
    NodeResolveOf({Latest, Lts} \cup { Semver(r) : r \in Ranges }, CacheResponses)

Next == Tick \/ Return \/ NodeResolveCached

Spec == Init /\ [][Next]_vars

-----------------------------------------------------------------------------
(* Resolution on the three collections, from an empty cache *)

\* a fresh installation; tool is the collection the calls are made on
InitResolve ==
    /\ now = 0
    /\ node_index_expiry_file = NoExpiryFile
    /\ node_index_file = NoIndexFile
    /\ tool \in Tools
    /\ last = NoCall
    /\ Idle

IndexResponses ==
    {NoResponse} \cup [ok : {TRUE}, body : NodeBodies, headers : {NoHeaders}]

\* resolve on the NodeCollection, of every VersionSpec and every index
NodeResolve == NodeResolveOf(VersionSpecs, IndexResponses)

\* a call of resolve on the YarnCollection
YarnResolve ==
    /\ tool = "yarn"
    /\ last = NoCall
    /\ \E matching \in VersionSpecs, hooks \in Hooks :
       \E response \in YarnResponses(matching) :
          last' = Call("yarn", "yarn", matching, hooks,
                       YarnCollection_resolve(matching, hooks, response), response)
    /\ UNCHANGED <<now, node_index_expiry_file, node_index_file, tool, inventory_vars, npm, race>>

\* a call of resolve on the PackageCollection
PackageResolve ==
    /\ tool = "package"
    /\ last = NoCall
    /\ \E name \in PackageNames, matching \in VersionSpecs, hooks \in Hooks :
       \E response \in PackageResponses :
          last' = Call("package", name, matching, hooks,
                       PackageCollection_resolve(name, matching, hooks, response),
                       response)
    /\ UNCHANGED <<now, node_index_expiry_file, node_index_file, tool, inventory_vars, npm, race>>

NextResolve == Return \/ NodeResolve \/ YarnResolve \/ PackageResolve

SpecResolve == InitResolve /\ [][NextResolve]_vars

-----------------------------------------------------------------------------
(* Fetches on the collections of a lazily loaded inventory *)

\* the versions a collection's directory holds when the process starts
SampleInstalled == { <<>>, << <<1, 0, 0>> >>, << <<1, 1, 0>>, <<2, 0, 0>> >> }

\* a process that has not touched its inventory yet, with a cold index cache
InitFetch ==
    /\ now = 0
    /\ node_index_expiry_file = NoExpiryFile
    /\ node_index_file = NoIndexFile
    /\ tool \in Tools
    /\ last = NoCall
    /\ inventory = LazyCell_new
    /\ installed \in [node : SampleInstalled, yarn : SampleInstalled,
                      packages : SampleInstalled]
    /\ outcome = NoOutcome
    /\ npm = NoNpm
    /\ race = NoRace

\* the record of LazyInventory::get or get_mut: what it returned and the
\* inventory the reference shows
Borrowed(op, r) ==
    [op |-> op, tool |-> "none",
     ret |-> IF r.tag = "Ok" THEN FetchOk(NoFetched) ELSE FetchErr(UnknownError),
     seen |-> r.cell.inner]

\* the record of Collection::fetch on the collection of tool t
FetchCall(t, ret, cell) == [op |-> "fetch", tool |-> t, ret |-> ret, seen |-> cell.inner]

\* a call of get or get_mut
Borrow(op) ==
    /\ outcome = NoOutcome
    /\ inventory.loads < MaxLoads
    /\ \E loaded \in BOOLEAN :
          LET r == try_borrow_with(inventory, installed, loaded)
          IN  /\ inventory' = r.cell
              /\ outcome' = Borrowed(op, r)
    /\ UNCHANGED <<resolve_vars, installed, npm, race>>

\* LazyInventory::get
Get == Borrow("get")

\* LazyInventory::get_mut
GetMut == Borrow("get_mut")

\* the caller takes what get, get_mut or fetch returned
ReturnFetch ==
    /\ outcome # NoOutcome
    /\ outcome' = NoOutcome
    /\ last' = NoCall
    /\ UNCHANGED <<now, node_index_expiry_file, node_index_file, tool, inventory,
                   installed, npm, race>>

\* the hooks fetches are made with
FetchHooks == { h \in Hooks : h.latest = h.index }

\* the download of Distro::fetch: it succeeds or fails when one is made
Download(out, versions) ==
    IF out.result.tag = "Ok" /\ ~contains(versions, out.result.version)
    THEN BOOLEAN ELSE {FALSE}

\* Distro::fetch unpacks the version it downloaded into the local state
Unpacked(disk_versions, ret) ==
    IF ret.tag = "Ok" /\ ret.fetched.kind = "Now"
    THEN BTreeSetInsert(disk_versions, ret.fetched.version)
    ELSE disk_versions

FetchNodeResponses ==
    {NoResponse} \cup [ok : {TRUE}, body : SampleBodies, headers : {NoHeaders}]

\* fetch on the NodeCollection of the loaded inventory
NodeFetch ==
    /\ tool = "node"
    /\ outcome = NoOutcome
    /\ inventory.filled
    /\ \E matching \in VersionSpecs, hooks \in FetchHooks :
       \E response \in Answer(matching.variant # "Exact" /\
                              read_cached_opt(node_index_expiry_file, node_index_file,
                                              now).tag = "None", FetchNodeResponses) :
       \E download \in Download(NodeCollection_resolve(matching, hooks,
                                    node_index_expiry_file, node_index_file, now, response),
                                inventory.inner.node) :
          LET f == NodeCollection_fetch(matching, hooks, inventory.inner.node,
                                        node_index_expiry_file, node_index_file, now,
                                        response, download)
              cell == [inventory EXCEPT !.inner.node = f.versions]
          IN  /\ inventory' = cell
              /\ installed' = [installed EXCEPT !.node = Unpacked(@, f.ret)]
              /\ node_index_expiry_file' = f.out.expiry_file
              /\ node_index_file' = f.out.index_file
              /\ last' = Call("node", "node", matching, hooks, f.out, response)
              /\ outcome' = FetchCall("node", f.ret, cell)
    /\ UNCHANGED <<now, tool, npm, race>>

\* the release lists and the package metadata the registry serves to fetches
SampleReleases ==
    { <<>>, << <<1, 0, 0>>, <<1, 1, 0>> >>, << <<2, 0, 0>>, <<1, 0, 0>> >> }

SampleMetadata ==
    { MetadataBody(<<1, 1, 0>>, <<>>),
      MetadataBody(<<1, 1, 0>>, <<[version |-> <<1, 0, 0>>, tarball |-> "a.tgz"],
                                  [version |-> <<1, 1, 0>>, tarball |-> "b.tgz"]>>),
      MetadataBody(<<2, 0, 0>>, <<[version |-> <<2, 0, 0>>, tarball |-> "a.tgz"],
                                  [version |-> <<1, 0, 0>>, tarball |-> "b.tgz"]>>) }

FetchYarnResponses(matching) ==
    CASE matching.variant = "Semver" ->
           {NoResponse}
           \cup [ok : {TRUE},
                 body : { ReleasesBody(l) : l \in SampleReleases } \cup {MalformedText},
                 headers : {NoHeaders}]
      [] OTHER -> YarnResponses(matching)

FetchPackageResponses ==
    {NoResponse}
    \cup [ok : {TRUE}, body : SampleMetadata \cup {MalformedText}, headers : {NoHeaders}]

\* fetch on the YarnCollection of the loaded inventory
YarnFetch ==
    /\ tool = "yarn"
    /\ outcome = NoOutcome
    /\ inventory.filled
    /\ \E matching \in VersionSpecs, hooks \in FetchHooks :
       \E response \in FetchYarnResponses(matching) :
       \E download \in Download(YarnCollection_resolve(matching, hooks, response),
                                inventory.inner.yarn) :
          LET f == YarnCollection_fetch(matching, hooks, inventory.inner.yarn, response,
                                        download)
              cell == [inventory EXCEPT !.inner.yarn = f.versions]
          IN  /\ inventory' = cell
              /\ installed' = [installed EXCEPT !.yarn = Unpacked(@, f.ret)]
              /\ last' = Call("yarn", "yarn", matching, hooks, f.out, response)
              /\ outcome' = FetchCall("yarn", f.ret, cell)
    /\ UNCHANGED <<now, node_index_expiry_file, node_index_file, tool, npm, race>>

\* fetch on the PackageCollection of the loaded inventory
PackageFetch ==
    /\ tool = "package"
    /\ outcome = NoOutcome
    /\ inventory.filled
    /\ \E name \in PackageNames, matching \in VersionSpecs, hooks \in FetchHooks :
       \E response \in FetchPackageResponses :
       \E download \in Download(PackageCollection_resolve(name, matching, hooks, response),
                                inventory.inner.packages) :
          LET f == PackageCollection_fetch(name, matching, hooks, inventory.inner.packages,
                                           response, download)
              cell == [inventory EXCEPT !.inner.packages = f.versions]
          IN  /\ inventory' = cell
              /\ installed' = [installed EXCEPT !.packages = Unpacked(@, f.ret)]
              /\ last' = Call("package", name, matching, hooks, f.out, response)
              /\ outcome' = FetchCall("package", f.ret, cell)
    /\ UNCHANGED <<now, node_index_expiry_file, node_index_file, tool, npm, race>>

NextFetch == Get \/ GetMut \/ ReturnFetch \/ NodeFetch \/ YarnFetch \/ PackageFetch

SpecFetch == InitFetch /\ [][NextFetch]_vars

-----------------------------------------------------------------------------
(* The npm dispatcher, once for each process *)

\* a process started with an argument vector
InitNpm ==
    /\ now = 0
    /\ node_index_expiry_file = NoExpiryFile
    /\ node_index_file = NoIndexFile
    /\ tool = "npm"
    /\ last = NoCall
    /\ inventory = LazyCell_new
    /\ installed = NoInventory
    /\ outcome = NoOutcome
    /\ \E argv \in ArgVectors : npm = [NoNpm EXCEPT !.argv = argv]
    /\ race = NoRace

\* what the platform's image gives when it is asked: whether checkout, then
\* path, then resolve_npm succeed; a step behind a failed one is never asked
ImageResults ==
    { r \in [checkout : BOOLEAN, path : BOOLEAN, resolve_npm : BOOLEAN] :
        /\ r.path => r.checkout
        /\ r.resolve_npm => r.path }

NoImage == [checkout |-> FALSE, path |-> FALSE, resolve_npm |-> FALSE]

\* the one call of command the process makes
NpmCommand ==
    /\ ~npm.called
    /\ \E platform \in PlatformResults, intercept \in BOOLEAN :
       \E image \in IF platform = "Some" THEN ImageResults ELSE {NoImage} :
          npm' = [argv |-> npm.argv, called |-> TRUE, platform |-> platform,
                  intercept |-> intercept, image |-> image,
                  ran |-> command(npm.argv, platform, intercept, image.checkout,
                                  image.path, image.resolve_npm)]
    /\ UNCHANGED <<resolve_vars, inventory_vars, race>>

NextNpm == NpmCommand

SpecNpm == InitNpm /\ [][NextNpm]_vars

-----------------------------------------------------------------------------
(* Two processes on the Node index cache, with no lock *)

\* the indexes the registry serves to the two processes
RaceBodies ==
    { ArrayText(<<[version |-> <<1, 0, 0>>, lts |-> TRUE]>>),
      ArrayText(<<[version |-> <<2, 0, 0>>, lts |-> FALSE],
                  [version |-> <<1, 1, 0>>, lts |-> TRUE]>>) }

RaceHeaders ==
    { [expires |-> [present |-> TRUE, secs |-> 1],
       cache_control |-> [present |-> FALSE, directives |-> <<>>]],
      [expires |-> [present |-> FALSE, secs |-> 0],
       cache_control |-> [present |-> TRUE, directives |-> <<MaxAge(MaxAgeSecs)>>]] }

RaceResponses ==
    {NoResponse} \cup [ok : {TRUE}, body : RaceBodies, headers : RaceHeaders]

\* the record an earlier run left: nothing, or the body of its fetch with an
\* expiry one second after the start
EarlierFetches == {NullText} \cup RaceBodies

InitRace ==
    /\ now = 0
    /\ \/ /\ node_index_expiry_file = NoExpiryFile
          /\ node_index_file = NoIndexFile
          /\ race = NoRace
       \/ \E body \in EarlierFetches :
             /\ node_index_expiry_file = File(DateText(1))
             /\ node_index_file = File(body)
             /\ race = [NoRace EXCEPT !.fetched = {body}]
    /\ tool = "node"
    /\ last = NoCall
    /\ inventory = LazyCell_new
    /\ installed = NoInventory
    /\ outcome = NoOutcome
    /\ npm = NoNpm

\* mutation of next_step: the expiry is written and persisted before the body
next_step_expiry_first(pc) ==
    CASE pc = "get" -> "write_expiry"
      [] pc = "write_expiry" -> "persist_expiry"
      [] pc = "persist_expiry" -> "persist_index"
      [] OTHER -> "done"

\* the order of the statements of resolve_node_versions after the GET
next_step(pc) ==
    CASE pc = "get" -> "persist_index"
      [] pc = "persist_index" -> "write_expiry"
      [] pc = "write_expiry" -> "persist_expiry"
      [] OTHER -> "done"

\* process p goes on to its next statement; behind the last one it parses
\* the body and returns
Advance(me) ==
    IF next_step(me.pc) = "done"
    THEN [me EXCEPT !.pc = "done", !.ret = FromStrNodeIndex(me.response.body)]
    ELSE [me EXCEPT !.pc = next_step(me.pc)]

\* a step of process p that leaves the files as they are
Local(p, locals) ==
    /\ race' = [race EXCEPT !.proc[p] = locals]
    /\ UNCHANGED <<resolve_vars, inventory_vars, npm>>

\* read_cached_opt: process p reads the expiry file and parses its text
ReadExpiry(p) ==
    /\ race.proc[p].pc = "read_expiry"
    /\ LET expiry == node_index_expiry_file
           me == [race.proc[p] EXCEPT
                     !.expiry = expiry,
                     !.after = \A q \in Procs \ {p} : race.proc[q].pc = "done"]
       IN  Local(p, IF ~expiry.present THEN [me EXCEPT !.pc = "get"]
                    ELSE IF expiry.text.kind # "http_date"
                    THEN [me EXCEPT !.pc = "done",
                                    !.ret = [tag |-> "Unknown", index |-> <<>>, detail |-> ""]]
                    ELSE [me EXCEPT !.pc = "compare"])

\* read_cached_opt: process p reads the clock and compares it with the expiry
Compare(p) ==
    /\ race.proc[p].pc = "compare"
    /\ LET me == [race.proc[p] EXCEPT !.at = now]
       IN  Local(p, IF still_valid(HttpDateFromSystemTime(now),
                                   HttpDateFromStr(me.expiry.text))
                    THEN [me EXCEPT !.pc = "read_index"]
                    ELSE [me EXCEPT !.pc = "get"])

\* read_cached_opt: process p reads the payload file and deserializes it
ReadIndex(p) ==
    /\ race.proc[p].pc = "read_index"
    /\ LET me == [race.proc[p] EXCEPT !.payload = node_index_file]
           cached == read_cached_opt(me.expiry, node_index_file, me.at)
       IN  Local(p, CASE cached.tag = "Some" ->
                           [me EXCEPT !.pc = "done",
                                      !.ret = [tag |-> "Ok", index |-> cached.index,
                                               detail |-> ""]]
                      [] cached.tag = "Err" ->
                           [me EXCEPT !.pc = "done",
                                      !.ret = [tag |-> "Unknown", index |-> <<>>,
                                               detail |-> ""]]
                      [] OTHER -> [me EXCEPT !.pc = "get"])

\* process p issues the GET and reads the body of the response
RegistryGet(p) ==
    /\ race.proc[p].pc = "get"
    /\ \E response \in RaceResponses :
          race' = IF ~response.ok
                  THEN [race EXCEPT !.proc[p] =
                            [@ EXCEPT !.pc = "done", !.gets = 1,
                                      !.ret = [tag |-> "RegistryFetchError", index |-> <<>>,
                                               detail |-> public_node_version_index]]]
                  ELSE [race EXCEPT !.proc[p] =
                            [@ EXCEPT !.pc = next_step("get"), !.gets = 1,
                                      !.response = response],
                                    !.fetched = @ \cup {response.body}]
    /\ UNCHANGED <<resolve_vars, inventory_vars, npm>>

\* process p persists its temporary file of the body as the payload file
PersistIndex(p) ==
    /\ race.proc[p].pc = "persist_index"
    /\ node_index_file' = persist(race.proc[p].response.body)
    /\ race' = [race EXCEPT !.proc[p] = Advance(@),
                            !.index_writer = [by |-> p, text |-> race.proc[p].response.body]]
    /\ UNCHANGED <<now, node_index_expiry_file, tool, last, inventory_vars, npm>>

\* process p writes the expiry to a temporary file, reading the clock when
\* the response has no Expires header
WriteExpiry(p) ==
    /\ race.proc[p].pc = "write_expiry"
    /\ Local(p, Advance([race.proc[p] EXCEPT
                            !.expiry_text = new_expiry(race.proc[p].response.headers,
                                                       now)]))

\* process p persists its temporary file of the expiry as the expiry file
PersistExpiry(p) ==
    /\ race.proc[p].pc = "persist_expiry"
    /\ node_index_expiry_file' = persist(race.proc[p].expiry_text)
    /\ race' = [race EXCEPT !.proc[p] = Advance(@),
                            !.expiry_writer = [by |-> p, text |-> race.proc[p].expiry_text]]
    /\ UNCHANGED <<now, node_index_file, tool, last, inventory_vars, npm>>

\* a step of one of the two processes
Step ==
    \E p \in Procs :
        \/ ReadExpiry(p) \/ Compare(p) \/ ReadIndex(p) \/ RegistryGet(p)
        \/ PersistIndex(p) \/ WriteExpiry(p) \/ PersistExpiry(p)

NextRace == Tick \/ Step

SpecRace == InitRace /\ [][NextRace]_vars

-----------------------------------------------------------------------------
(* The Node index cache: claims, checked under Spec *)

\* this step is a call of resolve on the NodeCollection that reads the cache
NodeCallStep == last = NoCall /\ last'.tool = "node" /\ last'.matching.variant # "Exact"

\* the expiry file holds an HTTP-date
ExpiryIsDate == node_index_expiry_file.present /\ node_index_expiry_file.text.kind = "http_date"

\* the instant the expiry file names, in ticks
ExpiryInstant == node_index_expiry_file.text.secs * TicksPerSec

\* the call on record got its index from the cache
CacheHit == last.tool = "node" /\ last.gets = 0 /\ last.result.tag \in {"Ok", "NodeVersionNotFound"}

\* the version resolve is to return from the entries of an index
Expected(matching, entries) ==
    LET sat(e) ==
            CASE matching.variant = "Latest" -> TRUE
              [] matching.variant = "Lts" -> e.lts
              [] OTHER -> Matches(matching.range, e.version)
        firsts == { i \in 1..Len(entries) :
                       sat(entries[i]) /\ \A j \in 1..(i - 1) : ~sat(entries[j]) }
        text == CASE matching.variant = "Latest" -> "latest"
                  [] matching.variant = "Lts" -> "lts"
                  [] OTHER -> RangeText(matching.range)
    IN  IF firsts = {}
        THEN Err("NodeVersionNotFound", "", text)
        ELSE Ok(entries[CHOOSE i \in firsts : TRUE].version)

\* C1: a call gets its index from the cache only when the clock is strictly
\* before the stored expiry, and when the stored expiry equals the clock the
\* read is a miss and the call issues a GET.
C1_StrictExpiry ==
    [][NodeCallStep =>
         /\ CacheHit' => ExpiryIsDate /\ now < ExpiryInstant
         /\ ExpiryIsDate /\ ExpiryInstant = now => last'.gets = 1]_vars

\* C1 witness: a call at the very instant of the stored expiry issued a GET
\* (which failed, so the expiry file still shows that instant)
C1_Witness ==
    /\ last.tool = "node" /\ last.gets = 1 /\ last.result.tag = "RegistryFetchError"
    /\ ExpiryIsDate /\ ExpiryInstant = now /\ now > 0
    /\ node_index_file.present /\ node_index_file.text.kind = "array"

\* C2 as amended: when the payload file holds a well-formed index and the
\* stored expiry is in the future, a resolution of latest, lts or a range
\* returns what the cached index gives, issues no GET and leaves both files
\* as they were.
C2_CacheHit ==
    [][NodeCallStep /\ ExpiryIsDate /\ now < ExpiryInstant
        /\ node_index_file.present /\ node_index_file.text.kind = "array"
       => /\ last'.gets = 0
          /\ UNCHANGED <<node_index_expiry_file, node_index_file>>
          /\ last'.result = Expected(last'.matching, node_index_file.text.entries)]_vars

\* C2 witness: a call answered from a valid cache record whose index has
\* an entry that is not the first
C2_Witness ==
    /\ CacheHit /\ ExpiryIsDate /\ now < ExpiryInstant
    /\ node_index_file.present /\ node_index_file.text.kind = "array"
    /\ Len(node_index_file.text.entries) = 2
    /\ last.result = Ok(node_index_file.text.entries[2].version)

\* C2 as stated: whenever the payload file is present and the stored expiry
\* is in the future, the call returns the cached index without a GET and
\* without changing the files.
C2_Original ==
    [][NodeCallStep /\ ExpiryIsDate /\ now < ExpiryInstant /\ node_index_file.present
       => /\ last'.gets = 0
          /\ UNCHANGED <<node_index_expiry_file, node_index_file>>
          /\ last'.result.tag \in {"Ok", "NodeVersionNotFound"}]_vars

\* C3 as stated: when the expiry file holds no valid HTTP-date, or the payload
\* file holds text that is no index, the call falls back to a GET and does
\* not fail on the content of the cache.
C3_ReadFailureIsMiss ==
    [][NodeCallStep
        /\ \/ node_index_expiry_file.present /\ ~ExpiryIsDate
           \/ node_index_file.present /\ node_index_file.text.kind # "array"
       => last'.gets = 1]_vars

\* C4 as stated: with only one of the two files present the call reads a
\* miss, as with both absent, and issues a GET.
C4_PartialCacheIsMiss ==
    [][NodeCallStep /\ node_index_expiry_file.present # node_index_file.present
       => last'.gets = 1]_vars

\* the max-age directives of the Cache-Control header of the response on record
MaxAges ==
    LET cc == last.response.headers.cache_control
    IN  IF cc.present
        THEN { cc.directives[i].arg : i \in { k \in 1..Len(cc.directives) :
                                                   cc.directives[k].name = "max-age" } }
        ELSE {}

\* C5: after a live fetch the expiry file holds the Expires header when the
\* response has one, else the date max-age seconds from now when
\* Cache-Control carries max-age, else the date four hours from now.
C5_NewExpiry ==
    last.tool = "node" /\ last.gets = 1 /\ last.response.ok =>
        LET expires == last.response.headers.expires
            secs == now \div TicksPerSec
        IN  /\ node_index_expiry_file.present
            /\ node_index_expiry_file.text.kind = "http_date"
            /\ node_index_expiry_file.text.secs =
                 IF expires.present THEN expires.secs
                 ELSE IF MaxAges # {} THEN secs + (CHOOSE n \in MaxAges : TRUE)
                 ELSE secs + 14400

\* C5 witness: a live fetch whose response carried both an Expires header
\* and a max-age naming another date
C5_Witness ==
    /\ last.tool = "node" /\ last.gets = 1 /\ last.response.ok
    /\ last.response.headers.expires.present
    /\ MaxAges # {}
    /\ \A n \in MaxAges : (now \div TicksPerSec) + n # last.response.headers.expires.secs
    /\ now > 0

-----------------------------------------------------------------------------
(* Resolution: claims, checked under SpecResolve *)

\* the call on record is a call on the NodeCollection that obtained an index,
\* from a valid cache record or from the registry: the payload file holds it
IndexObtained ==
    /\ last.tool = "node" /\ last.matching.variant # "Exact"
    /\ node_index_file.present /\ node_index_file.text.kind = "array"
    /\ \/ last.gets = 1 /\ last.response.ok
       \/ last.gets = 0 /\ ExpiryIsDate /\ now < ExpiryInstant

\* the call on record is a call on the PackageCollection that obtained an index
MetadataObtained ==
    last.tool = "package" /\ last.response.ok /\ last.response.body.kind = "metadata"

\* C6: resolve(Semver(R)) on Node and on a package returns the first entry
\* in list order whose version satisfies R, and a version-not-found error
\* when no entry satisfies R.
C6_SemverFirstMatch ==
    /\ IndexObtained /\ last.matching.variant = "Semver" =>
         LET e == node_index_file.text.entries
             ok(i) == Matches(last.matching.range, e[i].version)
         IN  IF \E i \in 1..Len(e) : ok(i)
             THEN \E i \in 1..Len(e) :
                     /\ ok(i) /\ \A j \in 1..(i - 1) : ~ok(j)
                     /\ last.result = Ok(e[i].version)
             ELSE last.result.tag = "NodeVersionNotFound"
    /\ MetadataObtained /\ last.matching.variant = "Semver" =>
         LET e == last.response.body.entries
             ok(i) == Matches(last.matching.range, e[i].version)
         IN  IF \E i \in 1..Len(e) : ok(i)
             THEN \E i \in 1..Len(e) :
                     /\ ok(i) /\ \A j \in 1..(i - 1) : ~ok(j)
                     /\ last.result = OkEntry(e[i])
             ELSE last.result.tag = "PackageVersionNotFound"

\* C6 witness: the second entry of the index is returned, the first not
\* satisfying the range and the third satisfying it with a greater version
C6_Witness ==
    /\ IndexObtained /\ last.matching.variant = "Semver"
    /\ LET e == node_index_file.text.entries
       IN  /\ Len(e) = 3
           /\ ~Matches(last.matching.range, e[1].version)
           /\ Matches(last.matching.range, e[2].version)
           /\ Matches(last.matching.range, e[3].version)
           /\ VersionLess(e[2].version, e[3].version)
           /\ last.result = Ok(e[2].version)

C8_YarnLtsIsLatest ==
    last.tool = "yarn" /\ last.matching.variant = "Lts" =>
        LET latest == YarnCollection_resolve(Latest, last.hooks, last.response)
        IN  /\ last.url = latest.url
            /\ last.gets = latest.gets
            /\ last.result = latest.result
            /\ last.url \in {HookResolve("latest", "latest-version"),
                             public_yarn_latest_version}

\* C8 witness: resolve(Lts) on Yarn with the latest hook set returned the
\* version the hook's URL served
C8_Witness ==
    /\ last.tool = "yarn" /\ last.matching.variant = "Lts"
    /\ last.hooks.given /\ last.hooks.latest /\ last.hooks.index
    /\ last.url = HookResolve("latest", "latest-version")
    /\ last.response.ok /\ last.response.body.kind = "version"
    /\ last.result = Ok(last.response.body.entries[1])

\* C9: resolve(Lts) on Node returns the version of the first entry of the
\* index whose LTS flag is set, and a not-found error carrying "lts" when
\* no entry has the flag set.
C9_NodeLts ==
    IndexObtained /\ last.matching.variant = "Lts" =>
        LET e == node_index_file.text.entries
            flagged == { i \in 1..Len(e) : e[i].lts }
        IN  IF flagged = {}
            THEN last.result = Err("NodeVersionNotFound", "", "lts")
            ELSE \E i \in flagged : /\ \A j \in flagged : i <= j
                                    /\ last.result = Ok(e[i].version)

\* C9 witness: of [non-LTS, LTS, LTS] the second entry is returned, the
\* three versions newest first
C9_Witness ==
    /\ IndexObtained /\ last.matching.variant = "Lts"
    /\ LET e == node_index_file.text.entries
       IN  /\ Len(e) = 3
           /\ ~e[1].lts /\ e[2].lts /\ e[3].lts
           /\ VersionLess(e[2].version, e[1].version)
           /\ VersionLess(e[3].version, e[2].version)
           /\ last.result = Ok(e[2].version)

\* C10: resolve(Latest) on Node returns the version of the first entry of
\* the index, whatever its LTS flag and the later entries, and fails with a
\* not-found error, carrying "latest", only when the index has no entries.
C10_NodeLatest ==
    /\ IndexObtained /\ last.matching.variant = "Latest" =>
         LET e == node_index_file.text.entries
         IN  IF Len(e) = 0
             THEN last.result = Err("NodeVersionNotFound", "", "latest")
             ELSE last.result = Ok(e[1].version)
    /\ last.tool = "node" /\ last.matching.variant = "Latest"
        /\ last.result.tag = "NodeVersionNotFound" =>
         /\ IndexObtained
         /\ node_index_file.text.entries = <<>>

\* C10 witness: the first entry is returned though it is not LTS and a
\* later entry has a greater version
C10_Witness ==
    /\ IndexObtained /\ last.matching.variant = "Latest"
    /\ LET e == node_index_file.text.entries
       IN  /\ Len(e) = 2
           /\ ~e[1].lts /\ e[2].lts
           /\ VersionLess(e[1].version, e[2].version)
           /\ last.result = Ok(e[1].version)

-----------------------------------------------------------------------------
(* Fetch and the inventory: claims, checked under SpecFetch *)

\* the collection of a tool in an inventory
CollectionOf(inv, t) ==
    CASE t = "node" -> inv.node
      [] t = "yarn" -> inv.yarn
      [] OTHER -> inv.packages

\* this step is a call of fetch on the collection of tool
FetchStep == outcome = NoOutcome /\ outcome'.op = "fetch"

\* this step is a fetch of an exact version the collection already has
FetchOfPresentExact ==
    /\ FetchStep
    /\ last'.matching.variant = "Exact"
    /\ contains(CollectionOf(inventory.inner, tool), last'.matching.version)

C12_FetchReflects ==
    [][FetchStep /\ outcome'.ret.tag = "Ok" =>
        LET before == CollectionOf(inventory.inner, tool)
            after == CollectionOf(inventory'.inner, tool)
            fetched == outcome'.ret.fetched
            distro == Distro(tool, last'.name, last'.result)
        IN  /\ last'.result.tag = "Ok"
            /\ \E download \in BOOLEAN :
                  outcome'.ret = DistroFetch(distro, before, download)
            /\ fetched.kind \in {"Now", "Already"}
            /\ contains(after, fetched.version)
            /\ IsBTreeSet(after)
            /\ fetched.kind = "Now" => after = BTreeSetInsert(before, fetched.version)
            /\ fetched.kind = "Already" => after = before]_vars

\* a fetch on the package collection returned Now(v) for a range, and v
\* went between the two versions the collection had
C12_Witness ==
    /\ outcome.op = "fetch" /\ tool = "package"
    /\ last.matching.variant = "Semver"
    /\ outcome.ret = FetchOk(FetchedNow(<<1, 1, 0>>))
    /\ inventory.inner.packages = << <<1, 0, 0>>, <<1, 1, 0>>, <<2, 0, 0>> >>

-----------------------------------------------------------------------------
(* The npm dispatcher: claims, checked under SpecNpm *)

\* command called check_npm_install
Checked == npm.called /\ npm.ran.found # NotChecked

\* the arguments after the program name that stay when flags are left out:
\* the ones that are not Unicode, and the Unicode ones that do not begin
\* with '-'
NonFlags(argv) ==
    LET keep == { i \in 2..Len(argv) : ~argv[i].unicode \/ ~argv[i].dash }
        nth(k) == CHOOSE i \in keep : Cardinality({ j \in keep : j < i }) = k - 1
    IN  [k \in 1..Cardinality(keep) |-> argv[nth(k)]]

\* the arguments after the program name that do not begin with '-'
NonDashes(argv) ==
    LET keep == { i \in 2..Len(argv) : ~argv[i].dash }
        nth(k) == CHOOSE i \in keep : Cardinality({ j \in keep : j < i }) = k - 1
    IN  [k \in 1..Cardinality(keep) |-> argv[nth(k)]]

\* GlobalAdd of the second of rest when the vector has -g or --global and the
\* first of rest is an install command, NotGlobalAdd otherwise
GlobalInstallOf(argv, rest) ==
    IF /\ \E i \in 1..Len(argv) : argv[i].unicode /\ argv[i].text \in {"-g", "--global"}
       /\ Len(rest) >= 1
       /\ rest[1].unicode /\ rest[1].text \in {"install", "i", "isntall", "add"}
    THEN GlobalAdd(IF Len(rest) >= 2 THEN SomeArg(rest[2]) ELSE NoArg)
    ELSE NotGlobalAdd

C14_NoPlatformPassthrough ==
    npm.called =>
        /\ npm.ran.steps[1] = "add_event_start" /\ npm.ran.steps[2] = "with_cli"
        /\ npm.platform = "None" =>
             /\ npm.ran.ret = ToolCommand_passthrough("npm", "NoPlatform")
             /\ npm.ran.steps = <<"add_event_start", "with_cli">>
             /\ npm.ran.found = NotChecked

\* npm -g install left-pad with the policy enabled and no platform
C14_Witness ==
    /\ npm.called /\ npm.platform = "None" /\ npm.intercept
    /\ npm.argv = <<Arg("npm"), Flag("-g"), Arg("install"), Arg("left-pad")>>
    /\ npm.ran.ret.tag = "passthrough"

\* the arguments of the process are a global install
IsGlobalInstall == check_npm_install(npm.argv).kind = "GlobalAdd"

\* i is the place of a step in the calls command made, 0 when it made none
StepAt(step) ==
    IF \E i \in 1..Len(npm.ran.steps) : npm.ran.steps[i] = step
    THEN CHOOSE i \in 1..Len(npm.ran.steps) : npm.ran.steps[i] = step
    ELSE 0

\* C15, on a platform with the policy enabled and a global install: command
\* returns NoGlobalInstalls with the package the check found, checks out no
\* image and produces no command.
Intercepted ==
    npm.called /\ npm.platform = "Some" /\ npm.intercept /\ IsGlobalInstall =>
        /\ npm.ran.ret = NpmErr("NoGlobalInstalls", check_npm_install(npm.argv).package)
        /\ StepAt("checkout") = 0
        /\ StepAt("with_cli") > 0
        /\ StepAt("check_npm_install") > StepAt("with_cli")

\* C15 as amended: on a platform, command returns NoGlobalInstalls exactly
\* when the policy is enabled and the arguments are a global install, and
\* then before any checkout; otherwise it checks the image out and returns
\* the direct npm command with the image's path when checkout, image.path
\* and image.resolve_npm all succeed, and the error of the first of them
\* that fails when one does.
C15_InterceptOrRun ==
    /\ Intercepted
    /\ npm.called /\ npm.platform = "Some" /\ ~(npm.intercept /\ IsGlobalInstall) =>
        /\ npm.ran.ret.error # "NoGlobalInstalls"
        /\ StepAt("checkout") > 0
        /\ npm.image.checkout /\ npm.image.path /\ npm.image.resolve_npm =>
             npm.ran.ret = ToolCommand_direct("npm", "image.path")
        /\ ~npm.image.checkout => npm.ran.ret = NpmErr("CheckoutError", NoArg)
        /\ npm.image.checkout /\ ~npm.image.path => npm.ran.ret = NpmErr("PathError", NoArg)
        /\ npm.image.path /\ ~npm.image.resolve_npm =>
             npm.ran.ret = NpmErr("ResolveNpmError", NoArg)

\* npm install --global with no package, intercepted with an absent package
C15_Witness ==
    /\ npm.called /\ npm.platform = "Some" /\ npm.intercept
    /\ npm.argv = <<Arg("npm"), Arg("install"), Flag("--global")>>
    /\ npm.ran.ret = NpmErr("NoGlobalInstalls", NoArg)

\* C15 as stated: on a platform, a successful checkout is enough for the
\* direct npm command when nothing is intercepted.
C15_Original ==
    /\ Intercepted
    /\ npm.called /\ npm.platform = "Some" /\ ~(npm.intercept /\ IsGlobalInstall) =>
        /\ npm.ran.ret.error # "NoGlobalInstalls"
        /\ npm.image.checkout => npm.ran.ret = ToolCommand_direct("npm", "image.path")

-----------------------------------------------------------------------------
(* Resolution: further claims, checked under SpecResolve and Spec *)

\* the human-readable form of a request
RequestText(matching) ==
    CASE matching.variant = "Latest" -> "latest"
      [] matching.variant = "Lts" -> "lts"
      [] matching.variant = "Semver" -> RangeText(matching.range)
      [] OTHER -> VersionText(matching.version)

\* the call on record is a call on the YarnCollection that obtained the releases
ReleasesObtained ==
    /\ last.tool = "yarn" /\ last.matching.variant = "Semver"
    /\ last.response.ok /\ last.response.body.kind = "releases"

\* no entry of the Node index on record satisfies the predicate of the request
NoNodeEntry ==
    LET e == node_index_file.text.entries
    IN  CASE last.matching.variant = "Latest" -> e = <<>>
          [] last.matching.variant = "Lts" -> \A i \in 1..Len(e) : ~e[i].lts
          [] OTHER -> \A i \in 1..Len(e) : ~Matches(last.matching.range, e[i].version)

\* no release of the response satisfies the range of the request
NoYarnRelease ==
    \A i \in 1..Len(last.response.body.entries) :
        ~Matches(last.matching.range, last.response.body.entries[i])

\* no entry of the package metadata satisfies the predicate of the request
NoPackageEntry ==
    LET e == last.response.body.entries
    IN  CASE last.matching.variant \in {"Latest", "Lts"} ->
               \A i \in 1..Len(e) : e[i].version # last.response.body.latest
          [] last.matching.variant = "Semver" ->
               \A i \in 1..Len(e) : ~Matches(last.matching.range, e[i].version)
          [] OTHER -> \A i \in 1..Len(e) : e[i].version # last.matching.version

ThroughLatest ==
    \/ last.matching.variant = "Latest"
    \/ last.matching.variant = "Lts" /\ last.tool \in {"yarn", "package"}

ThroughIndex ==
    \/ last.matching.variant = "Semver"
    \/ last.matching.variant = "Lts" /\ last.tool = "node"

\* the URL of an endpoint: the hook's when the hook is set, the public one
\* otherwise
UrlOf(set, hooked_url, public_url) == IF set THEN hooked_url ELSE public_url

\* C17: resolve_latest takes its URL from the latest hook exactly when hooks
\* are given with latest set, resolve_semver and Node's resolve_lts from the
\* index hook exactly when hooks are given with index set; otherwise the URL
\* is the public one of the endpoint, whatever the other hook is.
C17_HookPerField ==
    LET latest == last.hooks.given /\ last.hooks.latest
        index == last.hooks.given /\ last.hooks.index
    IN  /\ last.tool = "node" /\ ThroughLatest =>
             last.url = UrlOf(latest, "hook://latest/index.json",
                              "https://nodejs.org/dist/index.json")
        /\ last.tool = "node" /\ ThroughIndex =>
             last.url = UrlOf(index, "hook://index/index.json",
                              "https://nodejs.org/dist/index.json")
        /\ last.tool = "yarn" /\ ThroughLatest =>
             last.url = UrlOf(latest, "hook://latest/latest-version",
                              "https://yarnpkg.com/latest-version")
        /\ last.tool = "yarn" /\ ThroughIndex =>
             last.url = UrlOf(index, "hook://index/releases",
                              "https://api.github.com/repos/yarnpkg/yarn/releases")
        /\ last.tool = "package" /\ ThroughLatest =>
             last.url = UrlOf(latest, "hook://latest/left-pad",
                              "https://registry.npmjs.org/left-pad")
        /\ last.tool = "package" /\ ThroughIndex =>
             last.url = UrlOf(index, "hook://index/left-pad",
                              "https://registry.npmjs.org/left-pad")

\* Latest on Node with only the index hook set asked the public registry
C17_Witness ==
    /\ last.tool = "node" /\ last.matching.variant = "Latest"
    /\ last.hooks = [given |-> TRUE, latest |-> FALSE, index |-> TRUE]
    /\ last.gets = 1 /\ last.response.ok
    /\ last.url = "https://nodejs.org/dist/index.json"

\* C18: a call of resolve on Node that goes through resolve_node_versions
\* issues no GET or one; when its GET fails, it returns RegistryFetchError
\* with "Node" and the URL asked, and the payload and expiry files are what
\* they were before the call.
C18_NoRetry ==
    [][NodeCallStep =>
        /\ last'.gets \in {0, 1}
        /\ last'.gets >= 1 /\ ~last'.response.ok =>
             /\ last'.gets = 1
             /\ last'.result = Err("RegistryFetchError", "Node", last'.url)
             /\ last'.url \in {"https://nodejs.org/dist/index.json",
                               "hook://latest/index.json", "hook://index/index.json"}
             /\ UNCHANGED <<node_index_expiry_file, node_index_file>>]_vars

\* a GET of the index hook's URL failed over an expired cache record, which
\* is still there
C18_Witness ==
    /\ last.tool = "node" /\ last.gets = 1 /\ ~last.response.ok
    /\ last.result = Err("RegistryFetchError", "Node", "hook://index/index.json")
    /\ ExpiryIsDate /\ ExpiryInstant < now
    /\ node_index_file.present /\ node_index_file.text.kind = "array"
    /\ Len(node_index_file.text.entries) = 2

-----------------------------------------------------------------------------
(* The lazily loaded inventory: claims, checked under SpecFetch *)

\* this step is a call of get or of get_mut
BorrowStep == outcome = NoOutcome /\ outcome'.op \in {"get", "get_mut"}

\* the versions of a collection
VersionsOf(versions) == { versions[i] : i \in 1..Len(versions) }

\* C19: Inventory::current fills the cell at most once. A get or get_mut on
\* an empty cell loads the three collections from the local state and fills
\* the cell, or fails and leaves it empty; on a filled cell it succeeds,
\* loads nothing and shows the inventory as the fetches made so far have
\* left it.
C19_LoadOnce ==
    [][/\ inventory'.loads <= 1
       /\ inventory'.filled <=> inventory'.loads = 1
       /\ inventory.filled => inventory'.filled /\ inventory'.loads = inventory.loads
       /\ BorrowStep /\ inventory.filled =>
            /\ inventory' = inventory
            /\ outcome'.ret.tag = "Ok"
            /\ outcome'.seen = inventory.inner
       /\ BorrowStep /\ ~inventory.filled =>
            \/ /\ outcome'.ret.tag = "Ok"
               /\ inventory'.filled
               /\ inventory'.inner = [node |-> installed.node, yarn |-> installed.yarn,
                                      packages |-> installed.packages]
               /\ outcome'.seen = inventory'.inner
            \/ /\ outcome'.ret.tag = "Err"
               /\ inventory' = inventory]_vars

\* a get after a fetch shows the Yarn version the fetch appended to the one
\* loaded from the local state
C19_Witness ==
    /\ outcome.op = "get" /\ outcome.ret.tag = "Ok"
    /\ inventory.loads = 1
    /\ outcome.seen.yarn = << <<1, 0, 0>>, <<2, 0, 0>> >>

\* C20: a step never takes a version out of a collection of the loaded
\* inventory and never leaves a version in it twice; a fetch changes no
\* collection but the one it is called on, and changes none when it returns
\* an error.
C20_OnlyGrows ==
    [][inventory.filled =>
        /\ \A t \in Tools :
              /\ VersionsOf(CollectionOf(inventory.inner, t))
                    \subseteq VersionsOf(CollectionOf(inventory'.inner, t))
              /\ IsBTreeSet(CollectionOf(inventory'.inner, t))
              /\ Len(CollectionOf(inventory'.inner, t))
                    = Cardinality(VersionsOf(CollectionOf(inventory'.inner, t)))
        /\ FetchStep =>
              /\ \A t \in Tools \ {tool} :
                    CollectionOf(inventory'.inner, t) = CollectionOf(inventory.inner, t)
              /\ outcome'.ret.tag = "Err" => inventory' = inventory
        /\ ~FetchStep => inventory' = inventory]_vars

\* a fetch on the Yarn collection failed in the download, after an earlier
\* one had appended a version
C20_Witness ==
    /\ outcome.op = "fetch" /\ tool = "yarn"
    /\ outcome.ret.tag = "Err" /\ outcome.ret.error.tag = "DownloadError"
    /\ inventory.inner.yarn = << <<1, 0, 0>>, <<2, 0, 0>> >>
    /\ inventory.inner.node = << <<1, 1, 0>>, <<2, 0, 0>> >>

-----------------------------------------------------------------------------
(* The order of the Yarn releases: claim, checked under SpecResolve *)

\* the releases of the response on record that satisfy the range of the request
SatisfyingReleases ==
    { v \in YarnIndexEntries(last.response.body.entries) :
          Matches(last.matching.range, v) }

\* C21: resolve(Semver(R)) on Yarn returns, for every order in which the
\* response lists the releases, the greatest version by semver precedence
\* among the releases that satisfy R, and a version-not-found error carrying
\* the text of R when no release satisfies R.
C21_YarnSemverGreatest ==
    ReleasesObtained =>
        IF SatisfyingReleases = {}
        THEN last.result = Err("YarnVersionNotFound", "", RangeText(last.matching.range))
        ELSE /\ last.result.tag = "Ok"
             /\ last.result.version \in SatisfyingReleases
             /\ \A v \in SatisfyingReleases : ~VersionLess(last.result.version, v)

\* C21 witness: the response lists a satisfying release first, a release
\* that does not satisfy the range second and the greatest satisfying
\* release last, and the last one is returned
C21_Witness ==
    /\ ReleasesObtained
    /\ LET e == last.response.body.entries
       IN  /\ Len(e) = 3
           /\ Matches(last.matching.range, e[1])
           /\ ~Matches(last.matching.range, e[2])
           /\ Matches(last.matching.range, e[3])
           /\ VersionLess(e[1], e[3])
           /\ last.result = Ok(e[3])

-----------------------------------------------------------------------------
(* Two processes and no lock: claim, checked under SpecRace *)

\* process p has returned with the index it read from the cache
Hit(p) ==
    /\ race.proc[p].pc = "done"
    /\ race.proc[p].gets = 0
    /\ race.proc[p].ret.tag = "Ok"

\* both processes have returned
BothDone == \A p \in Procs : race.proc[p].pc = "done"

\* C22: in every interleaving of two processes a process that gets a cache
\* hit has read, as the payload, the whole body of one fetch and returns
\* the index of that body; and when both processes have returned, the payload
\* file and the expiry file each hold the text its last writer persisted.
C22_AtomicLastWriterWins ==
    /\ \A p \in Procs :
          Hit(p) =>
             \E body \in race.fetched :
                 /\ race.proc[p].payload = File(body)
                 /\ body.kind = "array"
                 /\ race.proc[p].ret.index = body.entries
    /\ BothDone =>
          /\ race.index_writer.by # 0 =>
                node_index_file = File(race.index_writer.text)
          /\ race.expiry_writer.by # 0 =>
                node_index_expiry_file = File(race.expiry_writer.text)

\* C22 witness: both processes fetched, different bodies, and have returned;
\* the payload file holds the body of one and the expiry file the expiry of
\* the other
C22_Witness ==
    /\ BothDone
    /\ \A p \in Procs : race.proc[p].gets = 1 /\ race.proc[p].response.ok
    /\ race.proc[1].response.body # race.proc[2].response.body
    /\ Len(race.proc[1].response.body.entries) = 2
    /\ race.proc[1].expiry_text # race.proc[2].expiry_text
    /\ race.index_writer.by = 1
    /\ race.expiry_writer.by = 2
    /\ node_index_file = File(race.proc[1].response.body)
    /\ node_index_expiry_file = File(race.proc[2].expiry_text)

-----------------------------------------------------------------------------
(* Write order and round trip: claim, checked under SpecRace *)

\* process p made a live fetch and returned the index of its body
Fetched(p) ==
    /\ race.proc[p].pc = "done"
    /\ race.proc[p].gets = 1
    /\ race.proc[p].ret.tag = "Ok"

\* process q made the call that follows the return of p: p had returned when
\* q began, and q has returned
NextCall(p, q) ==
    /\ p # q
    /\ race.proc[q].after
    /\ race.proc[q].pc = "done"

\* C23: the payload file is persisted before the expiry file: while one
\* process runs alone, an expiry file it has persisted always stands beside
\* the payload file of the same response.  And the record round-trips: a
\* call that follows a live fetch which returned an index, and that reads
\* the clock while the expiry of that fetch is still in the future, issues
\* no GET and returns the same index as the fetch.
C23_OrderAndRoundTrip ==
    \A p, q \in Procs :
        /\ p # q /\ race.proc[q].pc = "read_expiry" /\ race.expiry_writer.by = p =>
              /\ race.index_writer.by = p
              /\ node_index_file = File(race.proc[p].response.body)
        /\ Fetched(p) /\ NextCall(p, q)
             /\ still_valid(race.proc[q].at, HttpDateFromStr(race.proc[p].expiry_text)) =>
              /\ race.proc[q].gets = 0
              /\ race.proc[q].ret = race.proc[p].ret
              /\ race.proc[q].payload = File(race.proc[p].response.body)

\* C23 witness: a fetch of a two-entry index whose expiry was computed from
\* max-age, then the clock advanced, then a second call that was answered
\* from the record of the first
C23_Witness ==
    /\ Fetched(1) /\ NextCall(1, 2)
    /\ ~race.proc[1].response.headers.expires.present
    /\ Len(race.proc[1].ret.index) = 2
    /\ race.proc[2].at > 0
    /\ race.proc[2].gets = 0
    /\ race.proc[2].ret = race.proc[1].ret

-----------------------------------------------------------------------------
(* The cache and the URL: claim, checked under Spec *)

\* the URLs the resolve methods of Node pass to resolve_node_versions
NodeUrls == { node_latest_url(h) : h \in Hooks } \cup { node_index_url(h) : h \in Hooks }

\* what the registries behind those URLs would answer if they were asked
AnswersElsewhere ==
    {NoResponse} \cup [ok : {TRUE}, body : SampleBodies, headers : {NoHeaders}]

\* the cache record is valid: read_cached_opt gives an index
RecordValid ==
    read_cached_opt(node_index_expiry_file, node_index_file, now).tag = "Some"

\* C24: the cache is not keyed by the URL.  While the record is valid (the
\* expiry is in the future and the payload holds an index),
\* resolve_node_versions returns the cached index for every URL and whatever
\* the registry behind the URL would answer, and a call of resolve for
\* latest, lts or a range returns, for every hooks it could have been given
\* instead, the version it returned.
C24_CacheNotKeyedByUrl ==
    [][NodeCallStep /\ RecordValid =>
         /\ \A url \in NodeUrls, response \in AnswersElsewhere :
               LET r == resolve_node_versions(url, node_index_expiry_file,
                                              node_index_file, now, response)
               IN  /\ r.gets = 0
                   /\ r.ret = [tag |-> "Ok", index |-> node_index_file.text.entries,
                               detail |-> ""]
         /\ \A hooks \in Hooks, response \in AnswersElsewhere :
               LET out == NodeCollection_resolve(last'.matching, hooks,
                                                 node_index_expiry_file, node_index_file,
                                                 now, response)
               IN  /\ out.gets = 0
                   /\ out.result = last'.result]_vars

\* C24 witness: a call for latest with a latest hook, whose URL is the
\* mirror's, was answered from the cache record with the first entry of
\* the cached index
C24_Witness ==
    /\ CacheHit /\ ExpiryIsDate /\ now < ExpiryInstant
    /\ last.matching = Latest
    /\ last.hooks.given /\ last.hooks.latest /\ ~last.hooks.index
    /\ last.url = HookResolve("latest", "index.json")
    /\ Len(node_index_file.text.entries) = 2
    /\ last.result = Ok(node_index_file.text.entries[1].version)

-----------------------------------------------------------------------------
(* Persist before parse: claim, checked under Spec *)

\* C25: a call that issues the GET persists the body and the computed expiry
\* before it parses the body.  When the GET succeeds the two files hold
\* that body and the new expiry afterwards, and the call returns an error
\* when the body is no Node index; when the GET fails the call returns a
\* fetch error and both files are as they were.
C25_PersistBeforeParse ==
    [][NodeCallStep /\ last'.gets = 1 =>
         IF last'.response.ok
         THEN /\ node_index_file' = File(last'.response.body)
              /\ node_index_expiry_file' = File(new_expiry(last'.response.headers, now))
              /\ last'.response.body.kind # "array" => last'.result = UnknownError
              /\ last'.response.body.kind = "array" =>
                    last'.result = Expected(last'.matching, last'.response.body.entries)
         ELSE /\ last'.result.tag = "RegistryFetchError"
              /\ UNCHANGED <<node_index_expiry_file, node_index_file>>]_vars

\* C25 witness: the GET succeeded with a body that is no index over an
\* expired record; the call returned an error, the payload file holds that
\* body and the expiry file a date that is in the future
C25_Witness ==
    /\ last.tool = "node" /\ last.gets = 1 /\ last.response.ok
    /\ last.response.body = MalformedText
    /\ last.result = UnknownError
    /\ node_index_file = File(MalformedText)
    /\ ExpiryIsDate /\ now < ExpiryInstant /\ now > 0

=============================================================================
